---- MODULE Spec2Model ----
(***************************************************************************)
(* Model of streamlit_app.py: the research store (in memory, per session,  *)
(* mirrored to research_results.json), the two-state view controller and   *)
(* the research dispatch.  Every user interaction is one full rerun of the *)
(* script in one session; each rerun is one action.                        *)
(***************************************************************************)
EXTENDS Integers, Sequences, FiniteSets, TLC

\* ---------------------------------------------------------------- bounds
MaxClock == 3          \* the wall clock runs from tick 0 to tick MaxClock
TicksPerSecond == 2    \* clock ticks per second of strftime's resolution

Sessions == {"s1", "s2"}

\* ---------------------------------------------------------- input values
None == "None"                       \* api_key = None (line 30)
NoView == "absent"                   \* session_state has no current_view
NoSelection == -1                    \* session_state has no selected_research
ApiKeyInputs == {"", "sk-test"}      \* value of the api key text_input
Topics == {"", "GNN"}                \* value of the topic text_input
FocusInputs == {"", "a, b"}          \* value of the focus areas text_area
Exceptions == {"rate limit", "timeout"}

\* Python values the library can return (all JSON-serializable, as its
\* contract says): a dict with string keys, and a tuple, which json accepts
\* but which is not a JSON-native type.
PyDict == [t |-> "dict", v |-> <<9>>]
PyTuple == [t |-> "tuple", v |-> <<1, 2>>]
PyList == [t |-> "list", v |-> <<1, 2>>]
PyNone == [t |-> "NoneType", v |-> <<>>]
Results == {PyDict, PyTuple}

\* an outcome of lab.conduct_research: a returned value or a raised exception
Outcomes == [raised : {FALSE}, value : Results, exc : {None}]
            \cup [raised : {TRUE}, value : {PyNone}, exc : Exceptions]

\* I/O behaviour of the file system during one save / one load
SaveIO == {"ok", "open_fails", "write_fails"}
LoadIO == {"ok", "read_fails"}

EmptyStore == [k \in {} |-> PyDict]

VARIABLES
    clock,              \* wall clock, in ticks
    file,               \* research_results.json: [state, doc]
    on,                 \* on[s]: session s has run the script at least once
    research_results,   \* st.session_state.research_results, per session
    api_key,            \* st.session_state.api_key, per session
    current_view,       \* st.session_state.current_view, per session
    selected_research,  \* st.session_state.selected_research, per session
    last,               \* what the latest rerun did (calls, return, display)
    written             \* the in-memory store the file content was dumped from

vars == <<clock, file, on, research_results, api_key, current_view,
          selected_research, last, written>>

\* ------------------------------------------------------------ json module
JsonSerializable(py) == py.t \in {"dict", "list", "tuple"}

\* json.dump on one value: tuples and lists both become arrays
JsonEncode(py) ==
    IF py.t = "dict" THEN [t |-> "object", v |-> py.v]
    ELSE [t |-> "array", v |-> py.v]

\* json.load on one value: arrays become lists, objects become dicts
JsonDecode(js) ==
    IF js.t = "object" THEN [t |-> "dict", v |-> js.v]
    ELSE [t |-> "list", v |-> js.v]

StoreSerializable(store) ==
    \A k \in DOMAIN store : JsonSerializable(store[k].results)

\* json.dump(st.session_state.research_results, f, indent=4)
DumpStore(store) ==
    [k \in DOMAIN store |->
        [topic |-> store[k].topic,
         focus_areas |-> store[k].focus_areas,
         results |-> JsonEncode(store[k].results)]]

\* json.load(f)
LoadStore(doc) ==
    [k \in DOMAIN doc |->
        [topic |-> doc[k].topic,
         focus_areas |-> doc[k].focus_areas,
         results |-> JsonDecode(doc[k].results)]]

\* -------------------------------------------------------------- the file
MissingFile == [state |-> "missing", doc |-> EmptyStore]
CorruptFile == [state |-> "corrupt", doc |-> EmptyStore]

\* outcome of save_results: "ok", "open_failed" or "write_failed".
\* open(..., "w") either fails (nothing touched) or truncates the file; the
\* dump then fails on an I/O error or on a value json cannot serialize.
SaveOutcome(store, io) ==
    IF io = "open_fails" THEN "open_failed"
    ELSE IF io = "write_fails" \/ ~StoreSerializable(store) THEN "write_failed"
    ELSE "ok"

\* a save that also keeps the keys already on disk (read-merge-write)
save_results_merge(store, io) ==
    IF SaveOutcome(store, io) = "ok"
    THEN [state |-> "ok",
          doc |-> [k \in DOMAIN file.doc \cup DOMAIN store |->
                      IF k \in DOMAIN store THEN DumpStore(store)[k]
                      ELSE file.doc[k]]]
    ELSE IF SaveOutcome(store, io) = "write_failed" THEN CorruptFile
    ELSE file

\* the file after save_results() with the given in-memory store
save_results(store, io) ==
    IF SaveOutcome(store, io) = "ok"
    THEN [state |-> "ok", doc |-> DumpStore(store)]
    ELSE IF SaveOutcome(store, io) = "write_failed" THEN CorruptFile
    ELSE file

\* outcome of the load at initialisation: "missing", "failed" or "ok"
LoadOutcome(io) ==
    IF file.state = "missing" THEN "missing"
    ELSE IF file.state = "corrupt" \/ io = "read_fails" THEN "failed"
    ELSE "ok"

\* a load that drops the focus areas of every record
load_results_lossy(io) ==
    IF LoadOutcome(io) = "ok"
    THEN [k \in DOMAIN file.doc |->
             [LoadStore(file.doc)[k] EXCEPT !.focus_areas = ""]]
    ELSE EmptyStore

\* st.session_state.research_results after lines 17-27
load_results(io) ==
    IF LoadOutcome(io) = "ok" THEN LoadStore(file.doc) ELSE EmptyStore

\* ------------------------------------------------------------- the clock
\* datetime.now().strftime("%Y-%m-%d %H:%M:%S"): the clock cut to seconds
strftime(c) == c \div TicksPerSecond

\* ------------------------------------------------- what a rerun displayed
ApiKeyError == <<"error", <<"Please enter your OpenAI API key in the sidebar first!">>>>
NoRet == <<>>

\* a rerun that called nothing and displayed no message
Quiet ==
    [form |-> <<>>, libCalls |-> 0, save |-> "none", dropped |-> {},
     load |-> "none", ret |-> NoRet, shown |-> <<>>]

\* ------------------------------------------------------ session lifetime
\* first run of the script in a session: lines 17-30 and 113-115
StartSession(s, io) ==
    /\ ~on[s]
    /\ on' = [on EXCEPT ![s] = TRUE]
    /\ research_results' = [research_results EXCEPT ![s] = load_results(io)]
    /\ api_key' = [api_key EXCEPT ![s] = None]
    /\ current_view' = [current_view EXCEPT ![s] = "new_research"]
    /\ selected_research' = [selected_research EXCEPT ![s] = NoSelection]
    /\ last' = [Quiet EXCEPT !.load = LoadOutcome(io)]
    /\ UNCHANGED <<clock, file, written>>

\* time passes between two reruns
Tick ==
    /\ clock < MaxClock
    /\ clock' = clock + 1
    /\ last' = Quiet
    /\ UNCHANGED <<file, on, research_results, api_key, current_view,
                   selected_research, written>>

\* ---------------------------------------------------------------- sidebar
\* lines 55-58: the api key text_input
EnterApiKey(s, k) ==
    /\ on[s]
    /\ api_key' = [api_key EXCEPT ![s] = IF k # "" THEN k ELSE @]
    /\ last' = Quiet
    /\ UNCHANGED <<clock, file, on, research_results, current_view,
                   selected_research, written>>

\* a "New Research" button that names a view the script does not render
NewResearch_typo(s) ==
    /\ on[s]
    /\ current_view' = [current_view EXCEPT ![s] = "new"]
    /\ last' = Quiet
    /\ UNCHANGED <<clock, file, on, research_results, api_key,
                   selected_research, written>>

\* lines 67-68: the "New Research" button
NewResearch(s) ==
    /\ on[s]
    /\ current_view' = [current_view EXCEPT ![s] = "new_research"]
    /\ last' = Quiet
    /\ UNCHANGED <<clock, file, on, research_results, api_key,
                   selected_research, written>>

\* a record button that forgets to set selected_research
SelectResearch_noselect(s, timestamp) ==
    /\ on[s]
    /\ timestamp \in DOMAIN research_results[s]
    /\ current_view' = [current_view EXCEPT ![s] = "view_research"]
    /\ last' = Quiet
    /\ UNCHANGED <<clock, file, on, research_results, api_key,
                   selected_research, written>>

\* lines 71-76: one button per stored record
SelectResearch(s, timestamp) ==
    /\ on[s]
    /\ timestamp \in DOMAIN research_results[s]
    /\ current_view' = [current_view EXCEPT ![s] = "view_research"]
    /\ selected_research' = [selected_research EXCEPT ![s] = timestamp]
    /\ last' = Quiet
    /\ UNCHANGED <<clock, file, on, research_results, api_key, written>>

\* ------------------------------------------------------ research dispatch
\* an api key check that always passes
HasApiKey_always(s) == TRUE

\* lines 81 and 126: st.session_state.api_key is truthy
HasApiKey(s) == api_key[s] # None

\* a field check that accepts one filled field
FieldsFilled_either(topic, focus_areas) == topic # "" \/ focus_areas # ""

\* line 128: topic and focus_areas
FieldsFilled(topic, focus_areas) == topic # "" /\ focus_areas # ""

Record(topic, focus_areas, results) ==
    [topic |-> topic, focus_areas |-> focus_areas, results |-> results]

\* a dispatch that stores a record before it knows the call returned
StoreAfterDispatch_eager(s, topic, focus_areas, outcome, timestamp) ==
    [k \in DOMAIN research_results[s] \cup {timestamp} |->
        IF k = timestamp THEN Record(topic, focus_areas, outcome.value)
        ELSE research_results[s][k]]

\* lines 99-107: the store after the library call
StoreAfterDispatch(s, topic, focus_areas, outcome, timestamp) ==
    IF outcome.raised THEN research_results[s]
    ELSE [k \in DOMAIN research_results[s] \cup {timestamp} |->
             IF k = timestamp THEN Record(topic, focus_areas, outcome.value)
             ELSE research_results[s][k]]

\* lines 83, 109, 111: the value conduct_research returns
conduct_research_ret(s, outcome) ==
    IF ~HasApiKey(s) THEN <<FALSE, <<"API key required">>>>
    ELSE IF outcome.raised
         THEN <<FALSE, <<"Error during research: ", outcome.exc>>>>
         ELSE <<TRUE, <<"Research completed successfully!">>>>

\* lines 79-111: the state conduct_research leaves behind
conduct_research(s, topic, focus_areas, outcome, io) ==
    IF ~HasApiKey(s)
    THEN UNCHANGED <<clock, research_results, file, written>>
    ELSE /\ clock < MaxClock
         /\ clock' = clock + 1       \* the library call takes time
         /\ research_results' =
                [research_results EXCEPT ![s] =
                    StoreAfterDispatch(s, topic, focus_areas, outcome,
                                       strftime(clock'))]
         /\ IF outcome.raised
            THEN UNCHANGED <<file, written>>
            ELSE /\ file' = save_results(research_results'[s], io)
                 /\ written' =
                        IF SaveOutcome(research_results'[s], io) = "ok"
                        THEN research_results'[s]
                        ELSE IF SaveOutcome(research_results'[s], io)
                                = "write_failed"
                        THEN EmptyStore ELSE written

\* what the rerun of a submission called, returned and displayed
SubmitStep(s, topic, focus_areas, outcome, io) ==
    IF ~HasApiKey(s)
    THEN [Quiet EXCEPT !.form = <<s, topic, focus_areas>>, !.shown = ApiKeyError]
    ELSE IF FieldsFilled(topic, focus_areas)
    THEN [Quiet EXCEPT
            !.form = <<s, topic, focus_areas>>,
            !.libCalls = 1,
            !.save = IF outcome.raised THEN "none"
                     ELSE SaveOutcome(research_results'[s], io),
            !.dropped = DOMAIN file.doc \ DOMAIN file'.doc,
            !.ret = conduct_research_ret(s, outcome),
            !.shown = <<IF conduct_research_ret(s, outcome)[1]
                        THEN "success" ELSE "error",
                        conduct_research_ret(s, outcome)[2]>>]
    ELSE [Quiet EXCEPT !.form = <<s, topic, focus_areas>>]

\* lines 117-133: the intake form is submitted
research_form(s, topic, focus_areas, outcome, io) ==
    /\ on[s]
    /\ current_view[s] = "new_research"
    /\ IF ~HasApiKey(s)
       THEN UNCHANGED <<clock, research_results, file, written>>
       ELSE IF FieldsFilled(topic, focus_areas)
       THEN conduct_research(s, topic, focus_areas, outcome, io)
       ELSE UNCHANGED <<clock, research_results, file, written>>
    /\ last' = SubmitStep(s, topic, focus_areas, outcome, io)
    /\ UNCHANGED <<on, api_key, current_view, selected_research>>

\* ----------------------------------------------------------------- export
\* lines 136-159: "Export as Markdown" in the results viewer
Export(s) ==
    /\ on[s]
    /\ current_view[s] = "view_research"
    /\ selected_research[s] # NoSelection
    /\ selected_research[s] \in DOMAIN research_results[s]
    /\ last' = [Quiet EXCEPT !.shown = <<"download", <<"Download Markdown">>>>]
    /\ UNCHANGED <<clock, file, on, research_results, api_key, current_view,
                   selected_research, written>>

\* ---------------------------------------------------------- specification
\* the library outcomes and file system behaviours a submission can meet:
\* none when the form never reaches the library, no save after a raise
DispatchInputs(s, topic, focus_areas) ==
    IF HasApiKey(s) /\ FieldsFilled(topic, focus_areas)
    THEN {d \in [outcome : Outcomes, io : SaveIO] :
             d.outcome.raised => d.io = "ok"}
    ELSE {[outcome |-> CHOOSE o \in Outcomes : o.raised, io |-> "ok"]}

\* line 123: "Start Research" is pressed with the given field values
SubmitForm(s, topic, focus_areas) ==
    \E d \in DispatchInputs(s, topic, focus_areas) :
        research_form(s, topic, focus_areas, d.outcome, d.io)

Init ==
    /\ clock = 0
    /\ file = MissingFile
    /\ on = [s \in Sessions |-> FALSE]
    /\ research_results = [s \in Sessions |-> EmptyStore]
    /\ api_key = [s \in Sessions |-> None]
    /\ current_view = [s \in Sessions |-> NoView]
    /\ selected_research = [s \in Sessions |-> NoSelection]
    /\ last = Quiet
    /\ written = EmptyStore

Next ==
    \/ \E s \in Sessions, io \in LoadIO : StartSession(s, io)
    \/ Tick
    \/ \E s \in Sessions, k \in ApiKeyInputs : EnterApiKey(s, k)
    \/ \E s \in Sessions : NewResearch(s)
    \/ \E s \in Sessions, t \in 0..MaxClock : SelectResearch(s, t)
    \/ \E s \in Sessions, topic \in Topics, focus \in FocusInputs :
          SubmitForm(s, topic, focus)
    \/ \E s \in Sessions : Export(s)

Spec == Init /\ [][Next]_vars

\* ------------------------------------------------------------- properties
\* the session whose form the latest rerun submitted, and what it entered
Submitter(l) == l.form[1]
Dispatched(l) == l.form # <<>> /\ l.libCalls = 1
Succeeded(l) == Dispatched(l) /\ l.ret[1]
Raised(l) == Dispatched(l) /\ ~l.ret[1]

\* C1: every successful dispatch adds exactly one new entry to the store of
\* its session, under a timestamp key the store did not hold before, and
\* attempts a save.
C1_FreshKeyPerDispatch ==
    [][Succeeded(last') =>
        /\ strftime(clock') \notin DOMAIN research_results[Submitter(last')]
        /\ DOMAIN research_results'[Submitter(last')] =
              DOMAIN research_results[Submitter(last')] \cup {strftime(clock')}
        /\ Cardinality(DOMAIN research_results'[Submitter(last')]) =
              Cardinality(DOMAIN research_results[Submitter(last')]) + 1
        /\ last'.save # "none"]_vars

\* C2: a form submitted while the session has no api key leaves the store
\* in memory and on disk, current_view and selected_research unchanged,
\* does not call the library and shows the api key error.
C2_NoKeyNoEffect ==
    [][(last'.form # <<>> /\ api_key[Submitter(last')] = None) =>
        /\ research_results' = research_results
        /\ file' = file
        /\ current_view' = current_view
        /\ selected_research' = selected_research
        /\ last'.libCalls = 0
        /\ last'.ret = NoRet
        /\ last'.shown = ApiKeyError]_vars

C2_Witness ==
    /\ last.form # <<>>
    /\ last.shown = ApiKeyError
    /\ file.state = "ok"
    /\ api_key[Submitter(last)] = None
    /\ research_results[Submitter(last)] # EmptyStore

\* C3: when the library raises, conduct_research returns failure with the
\* exception text in its message, the store and the file are untouched, no
\* save is attempted, the library was called once, and the session still
\* shows the intake form with its api key, so it can submit again.
C3_LibraryFailure ==
    [][Raised(last') =>
        /\ \E e \in Exceptions :
              /\ last'.ret = <<FALSE, <<"Error during research: ", e>>>>
              /\ last'.shown = <<"error", <<"Error during research: ", e>>>>
        /\ research_results' = research_results
        /\ file' = file
        /\ last'.save = "none"
        /\ last'.libCalls = 1
        /\ on'[Submitter(last')]
        /\ current_view'[Submitter(last')] = "new_research"
        /\ api_key'[Submitter(last')] = api_key[Submitter(last')]
        /\ api_key'[Submitter(last')] # None]_vars

C3_Witness ==
    /\ Raised(last)
    /\ last.ret[2][2] = "timeout"
    /\ research_results[Submitter(last)] # EmptyStore

\* C4: a successful save replaces the whole file by the saving session's
\* in-memory store (nothing of the previous content is kept), and no
\* session's in-memory store changes when another session saves; so a
\* record one session saved is lost when another session saves later.
C4_LastWriterWins ==
    [][Succeeded(last') =>
        /\ last'.save = "ok" =>
              /\ file'.state = "ok"
              /\ file'.doc = DumpStore(research_results'[Submitter(last')])
              /\ last'.dropped =
                    DOMAIN file.doc \ DOMAIN research_results'[Submitter(last')]
        /\ \A s \in Sessions \ {Submitter(last')} :
              research_results'[s] = research_results[s]]_vars

C4_Witness ==
    /\ Succeeded(last)
    /\ last.save = "ok"
    /\ last.dropped # {}
    /\ \E s \in Sessions \ {Submitter(last)} :
          /\ on[s]
          /\ DOMAIN research_results[s] \cap last.dropped # {}

\* C5 as stated: a session that loads the file after a successful save
\* starts with a store equal to the store that was saved.
C5_RoundTripEqual ==
    [][\A s \in Sessions :
          (~on[s] /\ on'[s] /\ last'.load = "ok") =>
              research_results'[s] = written]_vars

\* C5 as amended: the loaded store has the saved store's keys, topics and
\* focus areas; a saved result that is a dict is loaded equal, a saved
\* tuple is loaded as the list of the same items.
C5_RoundTripJson ==
    [][\A s \in Sessions :
          (~on[s] /\ on'[s] /\ last'.load = "ok") =>
              /\ DOMAIN research_results'[s] = DOMAIN written
              /\ \A k \in DOMAIN written :
                    /\ research_results'[s][k].topic = written[k].topic
                    /\ research_results'[s][k].focus_areas
                          = written[k].focus_areas
                    /\ written[k].results.t \in {"dict", "list"} =>
                          research_results'[s][k].results = written[k].results
                    /\ written[k].results.t = "tuple" =>
                          research_results'[s][k].results =
                              [t |-> "list", v |-> written[k].results.v]]_vars

C5_Witness ==
    /\ last.load = "ok"
    /\ \E s \in Sessions, k \in DOMAIN written, j \in DOMAIN written :
          /\ on[s]
          /\ DOMAIN research_results[s] = DOMAIN written
          /\ written[k].results = PyTuple
          /\ research_results[s][k].results = PyList
          /\ written[j].results = PyDict
          /\ research_results[s][j].results = PyDict

\* C6: when the save of a successful dispatch fails, conduct_research still
\* reports success, the new record is in the in-memory store and the file
\* is as it was before the save; a session whose load fails or finds no
\* file starts with an empty store.
C6_SaveFailureLeavesFile ==
    [][/\ (Succeeded(last') /\ last'.save \in {"open_failed", "write_failed"})
          => /\ last'.ret = <<TRUE, <<"Research completed successfully!">>>>
             /\ strftime(clock') \in
                    DOMAIN research_results'[Submitter(last')]
             /\ file' = file
       /\ \A s \in Sessions :
             (~on[s] /\ on'[s] /\ last'.load \in {"missing", "failed"})
                => research_results'[s] = EmptyStore]_vars

\* C7: current_view starts as new_research and is always new_research or
\* view_research; "New Research" sets it to new_research; a record button
\* sets it to view_research and selected_research to that record's key; no
\* other rerun changes current_view or selected_research.
C7_ViewMachine ==
    [][\A s \in Sessions :
          /\ (~on[s] /\ on'[s]) => current_view'[s] = "new_research"
          /\ on'[s] => current_view'[s] \in {"new_research", "view_research"}
          /\ (on[s] /\ current_view'[s] # current_view[s]) =>
                \/ /\ current_view'[s] = "new_research"
                   /\ selected_research'[s] = selected_research[s]
                \/ /\ current_view'[s] = "view_research"
                   /\ selected_research'[s] \in DOMAIN research_results[s]
          /\ (on[s] /\ selected_research'[s] # selected_research[s]) =>
                /\ current_view'[s] = "view_research"
                /\ selected_research'[s] \in DOMAIN research_results[s]
          /\ (on[s] /\ last' # Quiet) =>
                /\ current_view'[s] = current_view[s]
                /\ selected_research'[s] = selected_research[s]
          /\ (on[s] /\ api_key'[s] # api_key[s]) =>
                /\ current_view'[s] = current_view[s]
                /\ selected_research'[s] = selected_research[s]]_vars

C7_Witness ==
    \E s \in Sessions :
        /\ on[s]
        /\ current_view[s] = "new_research"
        /\ selected_research[s] # NoSelection
        /\ last.form # <<>>
        /\ Submitter(last) = s
        /\ Succeeded(last)

\* C8: a form submitted with an api key and an empty topic or empty focus
\* areas shows no message, does not call the library, adds no record,
\* attempts no save and leaves the view state unchanged.
C8_EmptyFieldNoOp ==
    [][(/\ last'.form # <<>>
        /\ api_key[Submitter(last')] # None
        /\ (last'.form[2] = "" \/ last'.form[3] = "")) =>
        /\ last'.shown = <<>>
        /\ last'.ret = NoRet
        /\ last'.libCalls = 0
        /\ last'.save = "none"
        /\ research_results' = research_results
        /\ file' = file
        /\ clock' = clock
        /\ current_view' = current_view
        /\ selected_research' = selected_research]_vars

C8_Witness ==
    /\ last.form # <<>>
    /\ api_key[Submitter(last)] # None
    /\ last.form[2] = "GNN"
    /\ last.form[3] = ""
    /\ last.shown = <<>>
    /\ research_results[Submitter(last)] # EmptyStore

\* C9: in a running session the store changes only in a successful
\* submission of that session, and every key in the store stays in it and
\* keeps its record.
C9_RecordsKept ==
    [][\A s \in Sessions :
          on[s] =>
            /\ \A k \in DOMAIN research_results[s] :
                  /\ k \in DOMAIN research_results'[s]
                  /\ research_results'[s][k] = research_results[s][k]
            /\ research_results'[s] # research_results[s] =>
                  (Succeeded(last') /\ Submitter(last') = s)]_vars

\* C10: whenever a session shows view_research, selected_research is set
\* and is a key of that session's store.
C10_SelectionValid ==
    \A s \in Sessions :
        current_view[s] = "view_research" =>
            /\ selected_research[s] # NoSelection
            /\ selected_research[s] \in DOMAIN research_results[s]

C10_Witness ==
    \E s \in Sessions :
        /\ current_view[s] = "view_research"
        /\ Cardinality(DOMAIN research_results[s]) >= 2
        /\ selected_research[s] \in DOMAIN research_results[s]
        /\ last.shown = <<"download", <<"Download Markdown">>>>

====
